---- MODULE Spec2Model ----
(***************************************************************************)
(* The disk manager of the storage crate (crates/storage/src/disk/         *)
(* disk_manager.rs): one backing file seen as an array of fixed-size       *)
(* pages, a BufReader and a BufWriter over two handles of the same open    *)
(* file description (File::try_clone, so both share one file cursor), and  *)
(* the atomic counter last_allocated_pid.                                  *)
(*                                                                         *)
(* Scaling.  A page is PAGE_SIZE_BYTES = 2 bytes instead of 4096, a byte   *)
(* is 0 or 1 instead of 0..255,     and PageId / the file offset are       *)
(* PageIdBits = 3 bits wide instead of 64, with the same wrapping and      *)
(* checked arithmetic.  The capacity of BufReader and BufWriter is two     *)
(* pages, as 8192 is to 4096.                                              *)
(***************************************************************************)
EXTENDS Integers, Sequences, FiniteSets, TLC

\* crates/storage/src/lib.rs: const PAGE_SIZE_BYTES: usize = 4096 (scaled).
PAGE_SIZE_BYTES == 2

\* disk_manager.rs: pub(crate) type PageId = u64 (scaled to 3 bits).
PageIdBits == 3

\* std::io DEFAULT_BUF_SIZE (8192), the capacity BufReader::new and
\* BufWriter::new give their buffers: two pages.
BufCapacity == 2 * PAGE_SIZE_BYTES

\* Bounds of the model.
MaxInitLen == 3       \* length of the file found by the first open
MaxSessions == 2      \* opens of the backing file
MaxFaults == 1        \* I/O calls the environment fails
MaxAllocs == 5        \* ids one session's Allocate calls return (SpecAlloc)
MaxIoAllocs == 2      \* the same, in the sessions that also write (Spec)

U64Modulus == 2 ^ PageIdBits
U64_MAX == U64Modulus - 1
PageId == 0..U64_MAX
Byte == {0, 1}

Min(a, b) == IF a < b THEN a ELSE b
Max(a, b) == IF a > b THEN a ELSE b

\* All byte strings of length lo..hi.
BytesOfLen(lo, hi) == UNION {[1..n -> Byte] : n \in lo..hi}

\* A buffer one byte short of a page.
EMPTY_BUFFER_Short == [i \in 1..(PAGE_SIZE_BYTES - 1) |-> 0]

\* const EMPTY_BUFFER: &[u8] = &[0; PAGE_SIZE_BYTES]
EMPTY_BUFFER == [i \in 1..PAGE_SIZE_BYTES |-> 0]

(***************************************************************************)
(* The file system: pwrite/pread on the backing file at a byte offset.     *)
(***************************************************************************)
\* write(2) of data at offset pos: bytes between the old end of file and pos
\* become a hole that reads as zero; a write of no bytes changes nothing.
FileWriteAt(f, pos, data) ==
    IF data = <<>> THEN f
    ELSE [i \in 1..Max(Len(f), pos + Len(data)) |->
            IF i > pos /\ i <= pos + Len(data) THEN data[i - pos]
            ELSE IF i <= Len(f) THEN f[i] ELSE 0]

\* read(2) of up to n bytes at offset pos: what the file has there, short at
\* the end of the file, nothing at or past it.
FileReadAt(f, pos, n) ==
    IF pos >= Len(f) THEN <<>>
    ELSE SubSeq(f, pos + 1, Min(pos + n, Len(f)))

(***************************************************************************)
(* DiskManager::calculate_offset                                           *)
(***************************************************************************)
\* u64::wrapping_mul in the place of checked_mul.
wrapping_mul(a, b) == [some |-> TRUE, value |-> (a * b) % U64Modulus]

\* u64::checked_mul: the product if it fits the width, None otherwise.
checked_mul(a, b) ==
    LET wide == a * b
        low == wide % U64Modulus
    IN  IF wide \div U64Modulus = 0
        THEN [some |-> TRUE, value |-> low]
        ELSE [some |-> FALSE, value |-> 0]

calculate_offset(page_id) ==
    LET r == checked_mul(page_id, PAGE_SIZE_BYTES)
    IN  IF r.some THEN [err |-> "Ok", value |-> r.value]
        ELSE [err |-> "ArithmeticOverflow", value |-> 0]

(***************************************************************************)
(* DiskManager::write, on the BufWriter and the shared file cursor.        *)
(* f: the file, cur: the cursor, w: the bytes BufWriter holds unwritten,   *)
(* fault: the I/O call of this write that the environment fails.           *)
(***************************************************************************)
\* The length check off by one.
TooLong_OffByOne(data) == Len(data) > PAGE_SIZE_BYTES + 1

\* if data.len() > PAGE_SIZE_BYTES { return errdata!(...) }
TooLong(data) == Len(data) > PAGE_SIZE_BYTES

WriteOutcome(res, f, cur, w) ==
    [res |-> res, file |-> f, cursor |-> cur, writer |-> w]

\* The I/O calls of write(page_id, data) that can fail: BufWriter::seek first
\* flushes what the buffer still holds (flush_buf) and then seeks the file
\* (lseek); write_all only copies data into the buffer (data fits in the spare
\* capacity); flush writes the buffer to the file.
FaultPoints(w, page_id, data) ==
    IF TooLong(data) \/ calculate_offset(page_id).err # "Ok" THEN {}
    ELSE (IF w # <<>> THEN {"flush_buf"} ELSE {})
         \cup {"lseek"}
         \cup (IF data # <<>> THEN {"flush"} ELSE {})

write(f, cur, w, page_id, data, fault) ==
    IF TooLong(data) THEN WriteOutcome("InvalidData", f, cur, w)
    ELSE
    LET offset == calculate_offset(page_id) IN
    IF offset.err # "Ok" THEN WriteOutcome(offset.err, f, cur, w)
    ELSE
    \* self.writer.seek(SeekFrom::Start(offset))?: flush_buf, then lseek.
    IF fault = "flush_buf" /\ w # <<>> THEN WriteOutcome("IO", f, cur, w)
    ELSE
    LET f1 == FileWriteAt(f, cur, w)
        cur1 == cur + Len(w)
    IN
    IF fault = "lseek" THEN WriteOutcome("IO", f1, cur1, <<>>)
    \* self.writer.write_all(data)?: buffered.  self.writer.flush()?: a failed
    \* flush leaves the bytes in the buffer.
    ELSE IF fault = "flush" /\ data # <<>>
    THEN WriteOutcome("IO", f1, offset.value, data)
    ELSE WriteOutcome("Ok", FileWriteAt(f1, offset.value, data),
                      offset.value + Len(data), <<>>)

\* Drop of the BufWriter: it tries once more to write what it still holds, at
\* the cursor, and ignores the result.
DropWriter(f, cur, w, drop_ok) ==
    IF drop_ok THEN FileWriteAt(f, cur, w) ELSE f

(***************************************************************************)
(* DiskManager::read, on the BufReader and the shared file cursor.         *)
(* rb: the bytes BufReader holds unread.                                   *)
(***************************************************************************)
ReadOutcome(res, page, cur, rb) ==
    [res |-> res, page |-> page, cursor |-> cur, reader |-> rb]

\* A single read call in the place of read_exact: what the file has, the rest
\* of the zeroed buffer left as it is.
read_Padded(f, cur, rb, page_id) ==
    LET offset == calculate_offset(page_id) IN
    IF offset.err # "Ok" THEN ReadOutcome(offset.err, <<>>, cur, rb)
    ELSE
    LET got == FileReadAt(f, offset.value, PAGE_SIZE_BYTES) IN
    ReadOutcome("Ok",
                [i \in 1..PAGE_SIZE_BYTES |-> IF i <= Len(got) THEN got[i] ELSE 0],
                offset.value + Len(got), <<>>)

read(f, cur, rb, page_id) ==
    LET offset == calculate_offset(page_id) IN
    IF offset.err # "Ok" THEN ReadOutcome(offset.err, <<>>, cur, rb)
    ELSE
    \* BufReader::seek(SeekFrom::Start): lseek, then the buffer is discarded.
    \* read_exact: the buffer is empty and a page is smaller than its capacity,
    \* so the buffer is filled with up to BufCapacity bytes from the file; with
    \* less than a page before the end of the file the next fill reads nothing
    \* and read_exact fails with UnexpectedEof.
    LET got == FileReadAt(f, offset.value, BufCapacity) IN
    IF Len(got) >= PAGE_SIZE_BYTES
    THEN ReadOutcome("Ok", SubSeq(got, 1, PAGE_SIZE_BYTES),
                     offset.value + Len(got),
                     SubSeq(got, PAGE_SIZE_BYTES + 1, Len(got)))
    ELSE ReadOutcome("IO", <<>>, offset.value + Len(got), <<>>)

(***************************************************************************)
(* State.                                                                  *)
(***************************************************************************)
VARIABLES
    file,                \* the bytes of the backing file
    status,              \* "closed", "open", or "panicked" (a call unwound)
    last_allocated_pid,  \* DiskManager.last_allocated_pid
    cursor,              \* the file cursor reader and writer share
    reader,              \* DiskManager.reader: bytes buffered and not yet read
    writer,              \* DiskManager.writer: bytes buffered and not yet written
    last,                \* the last call and its result
    allocs,              \* ids the Allocate calls of this session returned, in order
    issued,              \* ids Allocate calls of earlier sessions on this file returned
    sessions,            \* calls of DiskManager::new so far
    faults,              \* I/O calls the environment has failed so far
    written,             \* history: per page, the data of the last Write call
                         \* of this session on it, if it succeeded (else <<>>)
    medium               \* the bytes of the file that are on the storage medium

vars == <<file, status, last_allocated_pid, cursor, reader, writer,
          last, allocs, issued, sessions, faults, written, medium>>

\* No Write call of this session has stored data in any page.
NothingWritten == [p \in PageId |-> <<>>]

NoPageId == 0 - 1

\* The bytes of the file in the range of page page_id (short or empty at the
\* end of the file).
PageOf(f, page_id) ==
    FileReadAt(f, page_id * PAGE_SIZE_BYTES, PAGE_SIZE_BYTES)

\* The record of a call that returned Ok.  pid: the page it read, wrote or
\* allocated; data: the bytes it was given; page: the bytes it returned; pre:
\* the bytes the file held in the page's range before it; after: for a read,
\* the call right before it when that call wrote the same page.
Returned(op, pid, data, page, pre, after) ==
    [op |-> op, res |-> "Ok", pid |-> pid, data |-> data, page |-> page,
     pre |-> pre, after |-> after]

\* The record of a call that returned an error, or panicked.
Failed(op, res) ==
    [op |-> op, res |-> res, pid |-> NoPageId, data |-> <<>>, page |-> <<>>,
     pre |-> <<>>, after |-> "none"]

\* The faults the environment may still inject.
MayFail(points) == IF faults < MaxFaults THEN points ELSE {}

Counted(fault) == IF fault # "none" THEN faults + 1 ELSE faults

InitialFiles == BytesOfLen(0, MaxInitLen)

Init ==
    /\ file \in InitialFiles
    /\ status = "closed"
    /\ last_allocated_pid = 0
    /\ cursor = 0
    /\ reader = <<>>
    /\ writer = <<>>
    /\ last = Failed("none", "none")
    /\ allocs = <<>>
    /\ issued = {}
    /\ sessions = 0
    /\ faults = 0
    /\ written = NothingWritten
    /\ medium = file

(***************************************************************************)
(* DiskManager::new: open or create the file, clone the handle, counter 0, *)
(* write(&0, EMPTY_BUFFER)?.  A failed open or try_clone panics (expect);  *)
(* a failed write returns the error and drops the new disk manager.        *)
(***************************************************************************)
\* An open with truncate(true).
OpenFile_Truncate(f) == <<>>

\* OpenOptions::new().write(true).read(true).create(true).open(&path): a
\* missing file is created empty, an existing one keeps its bytes.
OpenFile(f) == f

New(fault, drop_ok) ==
    /\ status = "closed"
    /\ sessions < MaxSessions
    /\ fault \in {"none"} \cup MayFail({"open", "try_clone", "lseek", "flush"})
    /\ sessions' = sessions + 1
    /\ faults' = Counted(fault)
    /\ issued' = issued \cup {allocs[i] : i \in 1..Len(allocs)}
    /\ allocs' = <<>>
    /\ reader' = <<>>
    /\ written' = NothingWritten
    /\ IF fault \in {"open", "try_clone"}
       THEN /\ last' = Failed("new", "panic")
            /\ UNCHANGED <<file, status, last_allocated_pid, cursor, writer>>
       ELSE LET w == write(OpenFile(file), 0, <<>>, 0, EMPTY_BUFFER, fault) IN
            /\ last_allocated_pid' = 0
            /\ IF w.res = "Ok"
               THEN /\ status' = "open"
                    /\ file' = w.file
                    /\ cursor' = w.cursor
                    /\ writer' = w.writer
                    /\ last' = Returned("new", 0, EMPTY_BUFFER, <<>>,
                                        PageOf(file, 0), "none")
               ELSE /\ status' = "closed"
                    /\ file' = DropWriter(w.file, w.cursor, w.writer, drop_ok)
                    /\ cursor' = 0
                    /\ writer' = <<>>
                    /\ last' = Failed("new", w.res)

(***************************************************************************)
(* DiskManager::allocate_page                                              *)
(***************************************************************************)
\* fetch_add(1, SeqCst): the counter wraps around on overflow.
fetch_add(counter, n) == (counter + n) % U64Modulus

\* overflow_checks: the build panics on integer overflow (the debug profile);
\* otherwise 1 + old wraps around.
Allocate(fault, overflow_checks) ==
    /\ status = "open"
    /\ Len(allocs) < MaxAllocs
    /\ LET old == last_allocated_pid
           sum == 1 + old
       IN
       /\ last_allocated_pid' = fetch_add(last_allocated_pid, 1)
       /\ IF sum > U64_MAX /\ overflow_checks
          THEN \* attempt to add with overflow: the call panics.
               /\ fault = "none"
               /\ status' = "panicked"
               /\ last' = Failed("alloc", "panic")
               /\ UNCHANGED <<file, cursor, writer, allocs, faults>>
          ELSE LET page_id == sum % U64Modulus
                   w == write(file, cursor, writer, page_id, EMPTY_BUFFER, fault)
               IN
               /\ fault \in {"none"} \cup MayFail(FaultPoints(writer, page_id, EMPTY_BUFFER))
               /\ faults' = Counted(fault)
               /\ file' = w.file
               /\ cursor' = w.cursor
               /\ writer' = w.writer
               /\ status' = "open"
               /\ allocs' = IF w.res = "Ok" THEN Append(allocs, page_id) ELSE allocs
               /\ last' = IF w.res = "Ok"
                          THEN Returned("alloc", page_id, EMPTY_BUFFER, <<>>,
                                        PageOf(file, page_id), "none")
                          ELSE Failed("alloc", w.res)
    /\ UNCHANGED <<reader, issued, sessions, written>>

(***************************************************************************)
(* DiskManager::read                                                       *)
(***************************************************************************)
Read(page_id) ==
    /\ status = "open"
    /\ LET r == read(file, cursor, reader, page_id)
           follows == last.res = "Ok" /\ last.pid = page_id
                      /\ last.op \in {"new", "alloc", "write"}
       IN
       /\ cursor' = r.cursor
       /\ reader' = r.reader
       /\ last' = IF r.res # "Ok" /\ ~follows THEN Failed("read", r.res)
                  ELSE [op |-> "read", res |-> r.res, pid |-> page_id,
                        data |-> IF follows THEN last.data ELSE <<>>,
                        page |-> r.page,
                        pre |-> IF follows THEN last.pre ELSE <<>>,
                        after |-> IF follows THEN last.op ELSE "none"]
    /\ UNCHANGED <<file, status, last_allocated_pid, writer, allocs, issued,
                   sessions, faults, written>>

(***************************************************************************)
(* DiskManager::write                                                      *)
(***************************************************************************)
Write(page_id, data, fault) ==
    /\ status = "open"
    /\ fault \in {"none"} \cup MayFail(FaultPoints(writer, page_id, data))
    /\ LET w == write(file, cursor, writer, page_id, data, fault) IN
       /\ file' = w.file
       /\ cursor' = w.cursor
       /\ writer' = w.writer
       /\ faults' = Counted(fault)
       /\ last' = IF w.res = "Ok"
                  THEN Returned("write", page_id, data, <<>>,
                                PageOf(file, page_id), "none")
                  ELSE Failed("write", w.res)
    /\ UNCHANGED <<status, last_allocated_pid, reader, allocs, issued, sessions>>

(***************************************************************************)
(* The disk manager is dropped (the database is closed, or a panic         *)
(* unwinds): the BufWriter tries to write what it still holds.             *)
(***************************************************************************)
Close(drop_ok) ==
    /\ status \in {"open", "panicked"}
    /\ status' = "closed"
    /\ file' = DropWriter(file, cursor, writer, drop_ok)
    /\ cursor' = 0
    /\ reader' = <<>>
    /\ writer' = <<>>
    /\ last' = Failed("close", "none")
    /\ written' = NothingWritten
    /\ UNCHANGED <<last_allocated_pid, allocs, issued, sessions, faults>>

(***************************************************************************)
(* The storage medium.  flush() of a BufWriter<File> hands the bytes to the *)
(* kernel with write(2) (File::flush does nothing); the code never calls   *)
(* sync_all or sync_data, so the kernel writes them to the medium when it  *)
(* chooses.  No call of the disk manager touches medium: each step of a    *)
(* specification says what the kernel does meanwhile.                      *)
(***************************************************************************)
\* The kernel writes the bytes of the step to the medium at once.
WriteThrough == medium' = file'

\* The kernel keeps the bytes of the step in its cache.
WriteBehind == medium' = medium

\* The kernel writes what its cache holds to the medium.
Writeback ==
    /\ medium # file
    /\ medium' = file
    /\ UNCHANGED <<file, status, last_allocated_pid, cursor, reader, writer,
                   last, allocs, issued, sessions, faults, written>>

\* The machine loses power: the process is gone and the file is what the
\* medium holds.
Crash ==
    /\ status # "closed" \/ medium # file
    /\ status' = "closed"
    /\ file' = medium
    /\ cursor' = 0
    /\ reader' = <<>>
    /\ writer' = <<>>
    /\ last' = Failed("crash", "none")
    /\ written' = NothingWritten
    /\ UNCHANGED <<last_allocated_pid, allocs, issued, sessions, faults, medium>>

(***************************************************************************)
(* The history of the Write calls.  A step of Write(page_id, data, fault)  *)
(* either records in written what the call stored, or leaves the history   *)
(* alone in the specifications that do not use it.                         *)
(***************************************************************************)
Stored(page_id, data) ==
    written' = [written EXCEPT
                   ![page_id] = IF last'.res = "Ok" THEN data ELSE <<>>]

NotStored == written' = written

Faults == {"none", "open", "try_clone", "flush_buf", "lseek", "flush"}

\* The page ids whose offset does not fit.
OverflowIds == {p \in PageId : calculate_offset(p).err # "Ok"}

\* The data of the Write calls: 0..PAGE_SIZE_BYTES + 1 nonzero bytes.
WriteData == {[i \in 1..n |-> 1] : n \in 0..PAGE_SIZE_BYTES + 1}

(***************************************************************************)
(* Spec: one session without I/O faults; reads of every page, writes of    *)
(* the first pages, of the last page whose offset fits, and of every page  *)
(* whose offset overflows.                                                 *)
(***************************************************************************)
IoPageIds == {0, 1, U64_MAX \div PAGE_SIZE_BYTES} \cup OverflowIds

Next ==
    \/ sessions = 0 /\ New("none", TRUE) /\ WriteThrough
    \/ Len(allocs) < MaxIoAllocs /\ Allocate("none", FALSE) /\ WriteThrough
    \/ \E page_id \in PageId : Read(page_id) /\ WriteThrough
    \/ \E page_id \in IoPageIds, data \in WriteData :
          Write(page_id, data, "none") /\ NotStored /\ WriteThrough
    \/ Close(TRUE) /\ WriteThrough

Spec == Init /\ [][Next]_vars

(***************************************************************************)
(* SpecAlloc: sessions of Allocate and Read calls, with I/O faults, long   *)
(* enough for the counter to wrap around, and the file reopened.           *)
(***************************************************************************)
NextAlloc ==
    \/ \E fault \in Faults, drop_ok \in BOOLEAN :
          New(fault, drop_ok) /\ WriteThrough
    \/ \E fault \in Faults, overflow_checks \in BOOLEAN :
          Allocate(fault, overflow_checks) /\ WriteThrough
    \/ \E page_id \in PageId : Read(page_id) /\ WriteThrough
    \/ \E drop_ok \in BOOLEAN : Close(drop_ok) /\ WriteThrough

SpecAlloc == Init /\ [][NextAlloc]_vars

(***************************************************************************)
(* SpecFault: one session on a fresh file, with I/O faults; reads and      *)
(* writes of the first two pages and of every page whose offset overflows, *)
(* and one allocation.                                                     *)
(***************************************************************************)
FaultPageIds == {0, 1} \cup OverflowIds

NextFault ==
    \/ \E fault \in Faults, drop_ok \in BOOLEAN :
          sessions = 0 /\ New(fault, drop_ok) /\ WriteThrough
    \/ \E fault \in Faults :
          allocs = <<>> /\ Allocate(fault, FALSE) /\ WriteThrough
    \/ \E page_id \in FaultPageIds : Read(page_id) /\ WriteThrough
    \/ \E page_id \in FaultPageIds, data \in WriteData, fault \in Faults :
          Write(page_id, data, fault) /\ NotStored /\ WriteThrough
    \/ \E drop_ok \in BOOLEAN : Close(drop_ok) /\ WriteThrough

\* The session starts on a file that did not exist.
InitFresh == Init /\ file = <<>>

SpecFault == InitFresh /\ [][NextFault]_vars

(***************************************************************************)
(* SpecStore: one session without I/O faults, with the history of its      *)
(* Write calls; reads and writes of the first three pages.                 *)
(***************************************************************************)
StorePageIds == {0, 1, 2}

NextStore ==
    \/ sessions = 0 /\ New("none", TRUE) /\ WriteThrough
    \/ Len(allocs) < MaxIoAllocs /\ Allocate("none", FALSE) /\ WriteThrough
    \/ \E page_id \in StorePageIds : Read(page_id) /\ WriteThrough
    \/ \E page_id \in StorePageIds, data \in WriteData :
          Write(page_id, data, "none") /\ Stored(page_id, data) /\ WriteThrough
    \/ Close(TRUE) /\ WriteThrough

SpecStore == InitFresh /\ [][NextStore]_vars

(***************************************************************************)
(* SpecCrash: sessions without I/O faults on a machine that may lose       *)
(* power, the kernel writing its cache to the medium when it chooses;      *)
(* reads and writes of the first two pages, and one allocation.            *)
(***************************************************************************)
CrashPageIds == {0, 1}

NextCrash ==
    \/ New("none", TRUE) /\ WriteBehind
    \/ allocs = <<>> /\ Allocate("none", FALSE) /\ WriteBehind
    \/ \E page_id \in CrashPageIds : Read(page_id) /\ WriteBehind
    \/ \E page_id \in CrashPageIds, data \in WriteData :
          Write(page_id, data, "none") /\ NotStored /\ WriteBehind
    \/ Close(TRUE) /\ WriteBehind
    \/ Writeback
    \/ Crash

SpecCrash == InitFresh /\ [][NextCrash]_vars

(***************************************************************************)
(* Properties.                                                             *)
(***************************************************************************)
AllocReturned == last.op = "alloc" /\ last.res = "Ok"

IsZeroPage(page) ==
    Len(page) = PAGE_SIZE_BYTES /\ \A i \in 1..Len(page) : page[i] = 0

\* C1: the ids the successful Allocate() calls of a session return are
\* 1, 2, 3, ... without a gap, whatever calls (failed Allocate() calls
\* included) came between them: the n-th id returned is n, and right after a
\* successful call the counter equals the id returned.
C1_IdsGaplessFromOne ==
    /\ \A n \in 1..Len(allocs) : allocs[n] = n
    /\ AllocReturned => last_allocated_pid = last.pid

\* C2: a Read(p) right after an Allocate() that returned p succeeds and
\* returns PAGE_SIZE_BYTES zero bytes, whatever the file held at page p.
C2_ReadAfterAllocateIsZero ==
    (last.op = "read" /\ last.after = "alloc")
        => (last.res = "Ok" /\ IsZeroPage(last.page))

\* C2 happens: a page that held a nonzero byte was allocated and then read.
C2_Witness ==
    /\ last.op = "read" /\ last.after = "alloc" /\ last.res = "Ok"
    /\ \E i \in 1..Len(last.pre) : last.pre[i] # 0

\* C3: after a successful open, of a fresh or of an existing file, the
\* counter is 0 and the bytes of the file past page 0 are those it had; a
\* Read(0) right after the open returns PAGE_SIZE_BYTES zero bytes.
C3_OpenZeroesOnlyPageZero ==
    [][ /\ (last'.op = "new" /\ last'.res = "Ok")
            => /\ last_allocated_pid' = 0
               /\ Len(file') = Max(Len(file), PAGE_SIZE_BYTES)
               /\ \A i \in (PAGE_SIZE_BYTES + 1)..Len(file) : file'[i] = file[i]
        /\ (last'.op = "read" /\ last'.after = "new")
            => (last'.res = "Ok" /\ IsZeroPage(last'.page))
      ]_vars

\* C3 happens: an existing file with nonzero bytes in page 0 and bytes past
\* page 0 was opened and page 0 read.
C3_Witness ==
    /\ last.op = "read" /\ last.after = "new" /\ last.res = "Ok"
    /\ \E i \in 1..Len(last.pre) : last.pre[i] # 0
    /\ \E i \in (PAGE_SIZE_BYTES + 1)..Len(file) : file[i] # 0

\* C4: a Read(p) right after a successful Write(p, data) returns a page of
\* PAGE_SIZE_BYTES bytes: data, then the bytes page p held past data before
\* the write; for every p, at or past the end of the file too.  (Stated for
\* data of at least one byte.)
C4_ReadAfterWrite ==
    (last.op = "read" /\ last.after = "write" /\ last.data # <<>>)
        => /\ last.res = "Ok"
           /\ Len(last.page) = PAGE_SIZE_BYTES
           /\ \A i \in 1..PAGE_SIZE_BYTES :
                 IF i <= Len(last.data) THEN last.page[i] = last.data[i]
                 ELSE i <= Len(last.pre) /\ last.page[i] = last.pre[i]

\* C5: no partial page: a fresh file is whole pages once opened, and every
\* call on an open store whose file is whole pages leaves it whole pages.
C5_WholePages ==
    [][ /\ (last'.op = "new" /\ last'.res = "Ok" /\ file = <<>>)
            => Len(file') % PAGE_SIZE_BYTES = 0
        /\ (status = "open" /\ status' = "open"
            /\ Len(file) % PAGE_SIZE_BYTES = 0)
            => Len(file') % PAGE_SIZE_BYTES = 0
      ]_vars

\* C6: pages are dense up to the watermark: the file of an open store holds
\* a whole page at every id 0..last_allocated_pid, and Read of it succeeds.
C6_DenseUpToWatermark ==
    status = "open"
        => \A p \in 0..last_allocated_pid :
              /\ Len(PageOf(file, p)) = PAGE_SIZE_BYTES
              /\ read(file, cursor, reader, p).res = "Ok"

\* C7: of two Allocate() calls of a session that both return an id, the later
\* returns the greater id, also across the maximum value of the counter.
C7_IdsStrictlyIncrease ==
    \A i, j \in 1..Len(allocs) : i < j => allocs[i] < allocs[j]

\* C8: Allocate() never returns an id that an earlier Allocate() on the same
\* file returned, in this session or in one before the file was reopened.
C8_IdsNeverReused ==
    AllocReturned
        => /\ last.pid \notin issued
           /\ \A i \in 1..(Len(allocs) - 1) : allocs[i] # last.pid

\* C9: Write(p, data) with more than PAGE_SIZE_BYTES bytes of data returns
\* InvalidData, for every p (one whose offset overflows too) and whatever the
\* BufWriter holds, and changes neither the file nor the counter (nor the
\* cursor and the two buffers): in every state of an open store that is the
\* outcome of write, and every Write call that returned InvalidData left
\* them as they were.
C9_OversizedWriteRejected ==
    /\ [](status = "open"
          => \A p \in PageId, fault \in Faults :
             \A data \in {d \in WriteData : Len(d) > PAGE_SIZE_BYTES} :
                write(file, cursor, writer, p, data, fault)
                    = [res |-> "InvalidData", file |-> file,
                       cursor |-> cursor, writer |-> writer])
    /\ [][ (last'.op = "write" /\ last'.res = "InvalidData")
             => UNCHANGED <<file, last_allocated_pid, cursor, reader, writer>>
         ]_vars

\* C9 happens: an oversized write was rejected while the BufWriter held
\* unwritten bytes.
C9_Witness ==
    last.op = "write" /\ last.res = "InvalidData" /\ writer # <<>>

\* C10: for a page id p with p * PAGE_SIZE_BYTES above the maximum offset,
\* Read(p) and Write(p, data) (data not oversized) return ArithmeticOverflow
\* and touch neither the file, the cursor nor the buffers; for every other p
\* the offset is p * PAGE_SIZE_BYTES: no overflow is reported, and a Write
\* without I/O fault puts data there and leaves the cursor behind it.
C10_OffsetOverflowChecked ==
    /\ [](status = "open"
          => \A p \in PageId :
             \A data \in {d \in WriteData : Len(d) <= PAGE_SIZE_BYTES} :
                LET r == read(file, cursor, reader, p)
                    w == write(file, cursor, writer, p, data, "none")
                IN  IF p * PAGE_SIZE_BYTES > U64_MAX
                    THEN /\ r = [res |-> "ArithmeticOverflow", page |-> <<>>,
                                 cursor |-> cursor, reader |-> reader]
                         /\ \A fault \in Faults :
                               write(file, cursor, writer, p, data, fault)
                                   = [res |-> "ArithmeticOverflow", file |-> file,
                                      cursor |-> cursor, writer |-> writer]
                    ELSE /\ calculate_offset(p).err = "Ok"
                         /\ calculate_offset(p).value = p * PAGE_SIZE_BYTES
                         /\ r.res # "ArithmeticOverflow"
                         /\ w.res = "Ok"
                         /\ w.cursor = p * PAGE_SIZE_BYTES + Len(data)
                         /\ FileReadAt(w.file, p * PAGE_SIZE_BYTES, Len(data)) = data)
    /\ [][ (last'.op \in {"read", "write"} /\ last'.res = "ArithmeticOverflow")
             => UNCHANGED <<file, last_allocated_pid, cursor, reader, writer>>
         ]_vars

\* C10 happens: a read or write of an overflowing page id was rejected with
\* the cursor away from the start of the file.
C10_Witness ==
    /\ last.op \in {"read", "write"} /\ last.res = "ArithmeticOverflow"
    /\ cursor > 0 /\ reader # <<>>

\* C11: a Read(p) of a page whose range [p * PAGE_SIZE_BYTES,
\* (p + 1) * PAGE_SIZE_BYTES) is not wholly inside the file fails with an IO
\* error and returns no page, neither partial nor padded with zeros; a Read
\* that succeeds returns exactly PAGE_SIZE_BYTES bytes, those of the file.
C11_ShortReadIsIOError ==
    /\ [](status = "open"
          => \A p \in PageId \ OverflowIds :
                LET r == read(file, cursor, reader, p) IN
                IF Len(PageOf(file, p)) < PAGE_SIZE_BYTES
                THEN r.res = "IO" /\ r.page = <<>>
                ELSE r.res = "Ok" /\ r.page = PageOf(file, p))
    /\ [][ /\ (last'.op = "read" /\ last'.res = "Ok")
                => /\ Len(last'.page) = PAGE_SIZE_BYTES
                   /\ last'.page = PageOf(file, last'.pid)
           /\ (last'.op = "read" /\ last'.res # "Ok") => last'.page = <<>>
         ]_vars

\* C11 happens: a Read of a page the file holds only in part failed with an
\* IO error and left the cursor at the end of the file.
C11_Witness ==
    /\ last.op = "read" /\ last.res = "IO"
    /\ Len(file) % PAGE_SIZE_BYTES # 0 /\ cursor = Len(file)

\* C12: allocate_page takes &mut self, so the calls of several callers exclude
\* one another and a concurrent execution is a sequence of whole calls, in any
\* order of the callers.  In every such execution the ids the calls of a
\* session return are pairwise distinct, and after n ids were handed out they
\* are exactly 1..n.
C12_ConcurrentIdsDistinct ==
    /\ \A i, j \in 1..Len(allocs) : i # j => allocs[i] # allocs[j]
    /\ {allocs[i] : i \in 1..Len(allocs)} = 1..Len(allocs)

\* C13: every Allocate() call that returns id p, whatever calls of other
\* callers came before it, has zeroed exactly page p: when it returns, page p
\* of the file is PAGE_SIZE_BYTES zero bytes, and no byte the file held
\* outside page p was written by the call.
C13_AllocateZeroesExactlyItsPage ==
    [][ (last'.op = "alloc" /\ last'.res = "Ok")
          => LET lo == last'.pid * PAGE_SIZE_BYTES IN
             /\ IsZeroPage(PageOf(file', last'.pid))
             /\ Len(file') >= Len(file)
             /\ \A i \in 1..Len(file) :
                   (i <= lo \/ i > lo + PAGE_SIZE_BYTES) => file'[i] = file[i]
      ]_vars

\* C14: a failure of DiskManager::new, of the open or create call itself
\* included, is returned to the caller as Error::IO; it never ends in another
\* outcome such as a panic.
C14_OpenFailureIsIOError ==
    (last.op = "new" /\ last.res # "Ok") => last.res = "IO"

\* C18: an Allocate() that returns an error (ArithmeticOverflow or IO) leaves
\* the counter and the file as they were before the call.
C18_AllocateAtomicOnFailure ==
    [][ (last'.op = "alloc" /\ last'.res \in {"ArithmeticOverflow", "IO"})
          => /\ last_allocated_pid' = last_allocated_pid
             /\ file' = file
      ]_vars

\* C16: a Read(p), whether it succeeds or fails, changes neither the counter
\* nor the file (no byte, nor its length), and every Read or Write called
\* after it has the result it would have had without the Read(p): the same
\* outcome, page returned and file left.
C16_ReadHasNoEffect ==
    [][ last'.op = "read"
          => /\ last_allocated_pid' = last_allocated_pid
             /\ file' = file
             /\ \A p \in PageId :
                   LET with == read(file', cursor', reader', p)
                       without == read(file, cursor, reader, p)
                   IN  with.res = without.res /\ with.page = without.page
             /\ \A p \in PageId, data \in WriteData :
                   LET with == write(file', cursor', writer', p, data, "none")
                       without == write(file, cursor, writer, p, data, "none")
                   IN  with.res = without.res /\ with.file = without.file
      ]_vars

\* C17: a Write(p, data) that succeeds changes only the bytes of the file in
\* [p * PAGE_SIZE_BYTES, p * PAGE_SIZE_BYTES + Len(data)): every byte the file
\* held outside that range keeps its value and the counter is unchanged,
\* wherever the calls before it left the cursor and the buffers.
C17_WriteChangesOnlyItsRange ==
    [][ (last'.op = "write" /\ last'.res = "Ok")
          => LET lo == last'.pid * PAGE_SIZE_BYTES
                 hi == lo + Len(last'.data)
             IN  /\ last_allocated_pid' = last_allocated_pid
                 /\ Len(file') >= Len(file)
                 /\ \A i \in 1..Len(file) :
                       (i <= lo \/ i > hi) => file'[i] = file[i]
      ]_vars

\* C19: the data a successful Write(p, data) stored stays in page p until the
\* next Write call on p, whatever Allocate() and Read calls and writes of
\* other pages come between, for every p, at or above the counter too: every
\* Read(p) that returns a page returns data in its prefix.  (That a Read(p)
\* may fail after a short write past the end of the file is C4.)
C19_WrittenDataPersists ==
    status = "open"
        => \A p \in PageId :
              LET r == read(file, cursor, reader, p) IN
              (written[p] # <<>> /\ r.res = "Ok")
                  => SubSeq(r.page, 1, Len(written[p])) = written[p]

\* C15: when Write, or the zero-write of Allocate or of the open, returns
\* success, the bytes it was given are on the storage medium and none is left
\* in a buffer (the BufWriter, the cache of the kernel): a crash right after
\* the return loses none of them.
C15_WriteIsDurable ==
    (last.op \in {"new", "alloc", "write"} /\ last.res = "Ok")
        => /\ writer = <<>>
           /\ FileReadAt(medium, last.pid * PAGE_SIZE_BYTES, Len(last.data))
                 = last.data

====
